---- MODULE Spec2Model ----
(***************************************************************************)
(* Model of the guestbook drawing store, src/pages/api/guestbook.ts:       *)
(* the delimiter codec (parseDrawings / serializeDrawings), the three      *)
(* storage objects, and the GET / POST / DELETE handlers, one action per   *)
(* await point of each handler.                                            *)
(***************************************************************************)
EXTENDS Integers, Sequences, FiniteSets, TLC

VARIABLES
  bucket,      \* env.DRAWINGS: key -> [present, body]
  req,         \* per handler invocation: position and locals
  started,     \* number of requests started so far (also Date.now())
  hist,        \* completed requests, in completion order
  faults,      \* number of storage / webhook failures injected so far
  codecPc,     \* codec harness: "in" | "encoded" | "decoded"
  codecIn,     \* codec harness: the records handed to serializeDrawings
  codecBlob,   \* codec harness: [threw, buf] returned by serializeDrawings
  codecOut,    \* codec harness: the records returned by parseDrawings
  resolve,     \* getClientIP harness: [pc, hdr, ip]
  indexer,     \* generateSearchIndex run: position, directory, documents, writes
  earlier,     \* the earlier, metadata-free endpoint: its drawings.bin and last response
  demo         \* ImageContainerDemo: the reducer's state and the pending build timers

vars == <<bucket, req, started, hist, faults, codecPc, codecIn, codecBlob, codecOut,
          resolve, indexer, earlier, demo>>

----------------------------------------------------------------------------
(* Bounds of the model *)

MaxReq == 2
MaxProcs == 2
MaxLegacy == 2
MaxCodecRecs == 3
MaxFaults == 1
MaxPosts == 2
MaxImages == 2
MaxContainers == 2
MaxConcReq == 2
MaxSeed == 2
MaxModReq == 3
MaxBlobLen == 4

----------------------------------------------------------------------------
(* Program constants *)

DRAWINGS_KEY == "drawings.bin"
BLOCKED_IPS_KEY == "blocked-ips.json"
DRAWING_METADATA_KEY == "drawing-metadata.json"
delimiter == <<255>>
SlotSize == 64

Keys == {DRAWINGS_KEY, BLOCKED_IPS_KEY, DRAWING_METADATA_KEY}

----------------------------------------------------------------------------
(* Uint8Array helpers *)

\* new Uint8Array(n): n zero bytes
Zeros(n) == [i \in 1..n |-> 0]

\* a payload of n bytes, all equal to b
Fill(b, n) == [i \in 1..n |-> b]

\* Uint8Array.prototype.slice(from, to) with 0-based from, exclusive to
Slice(a, from, to) == SubSeq(a, from + 1, to)

\* a bug variant: a source that does not fit is cut off silently
SetThrowsNever(buf, src, offset) == FALSE

\* TypedArray.prototype.set(src, offset): RangeError when it does not fit
SetThrows(buf, src, offset) == offset + Len(src) > Len(buf)

SetBytes(buf, src, offset) ==
  [i \in 1..Len(buf) |->
     IF i > offset /\ i <= offset + Len(src) THEN src[i - offset] ELSE buf[i]]

\* Array.prototype.splice(i, 1) with 0-based i: nothing to remove at i >= length
Splice1(a, i) ==
  IF i >= Len(a) THEN a
  ELSE [j \in 1..(Len(a) - 1) |-> IF j <= i THEN a[j] ELSE a[j + 1]]

Has255(r) == \E i \in 1..Len(r) : r[i] = delimiter[1]

----------------------------------------------------------------------------
(* parseDrawings: one scan of the blob.  The loop is followed delimiter by  *)
(* delimiter: between two delimiters it changes nothing.                    *)

\* the 0-based positions i >= from with fileContent[i] === delimiter[0]
DelimitersFrom(fileContent, from) ==
  { i \in from..(Len(fileContent) - 1) : fileContent[i + 1] = delimiter[1] }

SetMin(S) == CHOOSE x \in S : \A y \in S : x <= y

\* a bug variant: a delimiter right at the boundary also closes a record
ClosesRecordAlways(startIndex, i) == i >= startIndex

\* i > startIndex: the delimiter at i closes a record of at least one byte
ClosesRecord(startIndex, i) == i > startIndex

RECURSIVE ParseLoop(_, _, _)
ParseLoop(fileContent, startIndex, drawingsData) ==
  IF DelimitersFrom(fileContent, startIndex) = {}
  THEN IF startIndex < Len(fileContent)
       THEN Append(drawingsData, Slice(fileContent, startIndex, Len(fileContent)))
       ELSE drawingsData
  ELSE LET i == SetMin(DelimitersFrom(fileContent, startIndex)) IN
       ParseLoop(fileContent, i + 1,
                 IF ClosesRecord(startIndex, i)
                 THEN Append(drawingsData, Slice(fileContent, startIndex, i))
                 ELSE drawingsData)

parseDrawings(fileContent) == ParseLoop(fileContent, 0, <<>>)

----------------------------------------------------------------------------
(* serializeDrawings: a buffer of 64 n + n - 1 bytes is allocated, the      *)
(* records and delimiters are copied in; the result is [threw, buf].        *)

TotalLength(drawingsData) ==
  Len(drawingsData) * SlotSize + Len(drawingsData) - 1

RECURSIVE SerializeLoop(_, _, _, _)
SerializeLoop(drawingsData, i, finalBuffer, offset) ==
  IF i >= Len(drawingsData)
  THEN [threw |-> FALSE, buf |-> finalBuffer]
  ELSE LET drawing == drawingsData[i + 1] IN
       IF SetThrows(finalBuffer, drawing, offset)
       THEN [threw |-> TRUE, buf |-> <<>>]
       ELSE LET b1 == SetBytes(finalBuffer, drawing, offset)
                o1 == offset + Len(drawing)
            IN IF i < Len(drawingsData) - 1
               THEN IF SetThrows(b1, delimiter, o1)
                    THEN [threw |-> TRUE, buf |-> <<>>]
                    ELSE SerializeLoop(drawingsData, i + 1,
                                       SetBytes(b1, delimiter, o1),
                                       o1 + Len(delimiter))
               ELSE SerializeLoop(drawingsData, i + 1, b1, o1)

\* a bug variant: the buffer is one byte too long
serializeDrawingsOneMore(drawingsData) ==
  IF TotalLength(drawingsData) < 0
  THEN [threw |-> TRUE, buf |-> <<>>]
  ELSE SerializeLoop(drawingsData, 0, Zeros(TotalLength(drawingsData) + 1), 0)

serializeDrawings(drawingsData) ==
  IF TotalLength(drawingsData) < 0
  THEN [threw |-> TRUE, buf |-> <<>>]       \* new Uint8Array(-1): RangeError
  ELSE SerializeLoop(drawingsData, 0, Zeros(TotalLength(drawingsData)), 0)

----------------------------------------------------------------------------
(* Strings are sequences of tokens; null and undefined are two tokens of    *)
(* their own so that they compare with every other string.                  *)

Null == <<"#null">>
Undefined == <<"#undefined">>
EmptyStr == <<>>

Truthy(s) == s # Null /\ s # Undefined /\ s # EmptyStr

\* String.prototype.split(',')[0]
RECURSIVE SplitFirst(_)
SplitFirst(s) ==
  IF s = <<>> \/ Head(s) = "," THEN <<>> ELSE <<Head(s)>> \o SplitFirst(Tail(s))

\* String.prototype.trim()
RECURSIVE TrimLeft(_)
TrimLeft(s) == IF s # <<>> /\ Head(s) = " " THEN TrimLeft(Tail(s)) ELSE s

RECURSIVE TrimRight(_)
TrimRight(s) ==
  IF s # <<>> /\ s[Len(s)] = " " THEN TrimRight(SubSeq(s, 1, Len(s) - 1)) ELSE s

Trim(s) == TrimRight(TrimLeft(s))

\* a bug variant: X-Real-IP is consulted before X-Forwarded-For
getClientIPRealFirst(h) ==
  IF Truthy(h.cf) THEN h.cf
  ELSE IF Truthy(h.xri) THEN h.xri
  ELSE IF Truthy(h.xff) THEN Trim(SplitFirst(h.xff))
  ELSE Undefined

getClientIP(h) ==
  IF Truthy(h.cf) THEN h.cf
  ELSE IF Truthy(h.xff) THEN Trim(SplitFirst(h.xff))
  ELSE IF Truthy(h.xri) THEN h.xri
  ELSE Undefined

\* parseInt(s, 10): optional blanks, optional sign, then the longest run of
\* digits; NaN when there is none
NaN == -999999

Digits == <<"0", "1", "2", "3", "4", "5", "6", "7", "8", "9">>

IsDigit(c) == \E d \in 1..10 : Digits[d] = c

DigitVal(c) == (CHOOSE d \in 1..10 : Digits[d] = c) - 1

RECURSIVE ParseDigits(_, _)
ParseDigits(s, acc) ==
  IF s # <<>> /\ IsDigit(Head(s))
  THEN ParseDigits(Tail(s), acc * 10 + DigitVal(Head(s)))
  ELSE acc

parseInt(str) ==
  LET s == TrimLeft(str)
      neg == s # <<>> /\ Head(s) = "-"
      t == IF s # <<>> /\ (Head(s) = "-" \/ Head(s) = "+") THEN Tail(s) ELSE s
  IN IF t = <<>> \/ ~IsDigit(Head(t)) THEN NaN
     ELSE IF neg THEN 0 - ParseDigits(t, 0) ELSE ParseDigits(t, 0)

isNaN(n) == n = NaN

GUESTBOOK_SECRET_KEY == <<"s3cret">>

----------------------------------------------------------------------------
(* The storage objects.  An object is [present, body, writer]: writer is   *)
(* the number of the request that put it last (0: nobody yet).             *)

Absent == [present |-> FALSE, body |-> <<>>, writer |-> 0]

Obj(body, w) == [present |-> TRUE, body |-> body, writer |-> w]

\* DrawingMetadata with all three fields undefined (JSON: {})
NoId == <<>>
NoTs == -1
BlankEntry == [id |-> NoId, ip |-> Undefined, timestamp |-> NoTs]

Blanks(n) == [i \in 1..n |-> BlankEntry]

\* new Set(array): insertion order, duplicates dropped
RECURSIVE NewSet(_)
NewSet(a) ==
  IF a = <<>> THEN <<>>
  ELSE LET front == NewSet(SubSeq(a, 1, Len(a) - 1)) IN
       IF \E i \in 1..Len(front) : front[i] = a[Len(a)]
       THEN front ELSE Append(front, a[Len(a)])

SetHas(s, x) == \E i \in 1..Len(s) : s[i] = x

SetAdd(s, x) == IF SetHas(s, x) THEN s ELSE Append(s, x)

\* the records stored in drawings.bin, as the handlers decode them
StoredDrawings == parseDrawings(bucket[DRAWINGS_KEY].body)

StoredMetadata == bucket[DRAWING_METADATA_KEY].body

StoredBlocked == bucket[BLOCKED_IPS_KEY].body

----------------------------------------------------------------------------
(* Requests *)

Procs == 1..MaxProcs

\* request headers the model draws from
IPa == <<"1.2.3.4">>
IPb == <<"5.6.7.8">>

HdrA == [cf |-> IPa, xff |-> Null, xri |-> Null]
HdrB == [cf |-> Null, xff |-> <<" ", "5.6.7.8", " ", ",", "1.2.3.4">>, xri |-> IPa]
NoHeaders == [cf |-> Null, xff |-> Null, xri |-> Null]

\* a client that sends the text --- as its address
Dashes == <<"---">>
HdrDashes == [cf |-> Dashes, xff |-> Null, xri |-> Null]

WrongKey == <<"wrong">>
True == <<"true">>

\* request bodies: every POST sends bytes that carry its own request number
Payload(tag, kind) ==
  CASE kind = "full"  -> Fill(tag, SlotSize)
    [] kind = "short" -> <<tag>>
    [] kind = "long"  -> Fill(tag, SlotSize + 1)
    [] kind = "delim" -> <<tag, delimiter[1], tag>>

\* the DELETE requests of the concurrent specification
ConcDeleteInputs ==
  { [key |-> GUESTBOOK_SECRET_KEY, index |-> <<"0">>, block |-> True],
    [key |-> GUESTBOOK_SECRET_KEY, index |-> <<"1">>, block |-> True],
    [key |-> GUESTBOOK_SECRET_KEY, index |-> <<"1">>, block |-> Null] }

RandSuffixes == {7, 8}

\* one value of Math.random(), where the id of a drawing plays no part
OneSuffix == {7}

\* POST requests: [hdr, kind]
PostInputs ==
  { [hdr |-> HdrA, kind |-> "full"],
    [hdr |-> HdrB, kind |-> "full"],
    [hdr |-> NoHeaders, kind |-> "full"],
    [hdr |-> HdrA, kind |-> "short"],
    [hdr |-> HdrB, kind |-> "long"],
    [hdr |-> HdrA, kind |-> "delim"] }

\* the POST requests of the concurrent specification
ConcPostInputs ==
  { [hdr |-> HdrA, kind |-> "full"],
    [hdr |-> HdrB, kind |-> "full"] }

\* DELETE requests: [key, index, block]
DeleteInputs ==
  { [key |-> GUESTBOOK_SECRET_KEY, index |-> i, block |-> b] :
      i \in { <<"0">>, <<"1">>, <<"2">> }, b \in { Null, True } }
    \cup { [key |-> WrongKey, index |-> <<"0">>, block |-> True],
           [key |-> WrongKey, index |-> <<"2">>, block |-> Null],
           [key |-> WrongKey, index |-> Null, block |-> Null],
           [key |-> Null, index |-> <<"0">>, block |-> Null],
           [key |-> GUESTBOOK_SECRET_KEY, index |-> <<"-", "1">>, block |-> True],
           [key |-> GUESTBOOK_SECRET_KEY, index |-> <<"x">>, block |-> Null],
           [key |-> GUESTBOOK_SECRET_KEY, index |-> <<"1", "x">>, block |-> Null],
           [key |-> GUESTBOOK_SECRET_KEY, index |-> <<"1">>, block |-> <<"TRUE">>] }

\* the requests of the moderation specification: submissions with and without
\* an address, deletions that ask for the submitter to be blocked
ModPostInputs ==
  { [hdr |-> HdrA, kind |-> "full"],
    [hdr |-> NoHeaders, kind |-> "full"],
    [hdr |-> HdrDashes, kind |-> "full"] }

ModDeleteInputs ==
  { [key |-> GUESTBOOK_SECRET_KEY, index |-> i, block |-> True] :
      i \in { <<"0">>, <<"1">> } }

\* records a tracked log holds when the concurrent specification starts: what
\* earlier POSTs, run one after the other, have stored
SeedByte(i) == 200 + i

SeedIP(i) == IF i % 2 = 1 THEN IPb ELSE IPa

SeedLog(k) == [i \in 1..k |-> Fill(SeedByte(i), SlotSize)]

SeedEntry(i) == [id |-> <<0, i>>, ip |-> SeedIP(i), timestamp |-> 0]

\* records written before metadata tracking existed
LegacyByte(i) == 100 + i

LegacyLog(k) == [i \in 1..k |-> Fill(LegacyByte(i), SlotSize)]

EmptyBucket == [k \in Keys |-> Absent]

IdleReq ==
  [kind |-> "none", pc |-> "idle", tag |-> 0, status |-> 0,
   hdr |-> NoHeaders, key |-> Null, index |-> Null, block |-> Null,
   body |-> <<>>, clientIP |-> Undefined, blockedIPs |-> <<>>,
   drawingsData |-> <<>>, newBuffer |-> <<>>, metadata |-> <<>>,
   ipToBlock |-> Null, respBody |-> <<>>,
   wrote |-> {}, sawCount |-> -1, before |-> EmptyBucket,
   removed |-> <<>>, entry |-> BlankEntry, fetchFailed |-> FALSE,
   calls |-> {}, failed |-> {}]

InFlight(p) == req[p].pc \notin {"idle", "done"}

\* a new request takes the first slot that runs no handler
CanStart(p, max) ==
  /\ ~InFlight(p)
  /\ \A q \in 1..(p - 1) : InFlight(q)
  /\ started < max

\* what is kept of a request once its handler has returned
Returned(r, status) ==
  [IdleReq EXCEPT !.kind = r.kind, !.pc = "done", !.tag = r.tag,
                  !.status = status, !.hdr = r.hdr, !.key = r.key,
                  !.index = r.index, !.block = r.block, !.body = r.body,
                  !.clientIP = r.clientIP, !.ipToBlock = r.ipToBlock,
                  !.respBody = r.respBody, !.wrote = r.wrote,
                  !.sawCount = r.sawCount, !.before = r.before,
                  !.removed = r.removed, !.entry = r.entry,
                  !.fetchFailed = r.fetchFailed,
                  !.calls = r.calls, !.failed = r.failed]

Summary(r, status) ==
  [kind |-> r.kind, tag |-> r.tag, status |-> status, body |-> r.body,
   clientIP |-> r.clientIP, entry |-> r.entry, respBody |-> r.respBody,
   sawCount |-> r.sawCount, wrote |-> r.wrote, failed |-> r.failed]

\* the handler of p returns a response with this status
Return(p, r, status) ==
  /\ req' = [req EXCEPT ![p] = Returned(r, status)]
  /\ hist' = Append(hist, Summary(r, status))

Goto(p, r, pc) ==
  /\ req' = [req EXCEPT ![p] = [r EXCEPT !.pc = pc]]
  /\ hist' = hist

\* a storage or webhook call either succeeds or is the next injected failure
Outcome(ok) ==
  /\ ok \/ faults < MaxFaults
  /\ faults' = IF ok THEN faults ELSE faults + 1

Put(key, body, p) ==
  bucket' = [bucket EXCEPT ![key] = Obj(body, req[p].tag)]

Wrote(r, key) == [r EXCEPT !.wrote = @ \cup {key}]

WEBHOOK == "GUESTBOOK_WEBHOOK"

\* the handler has made this call (op: "get", "put" or "fetch"), with this outcome
Called(r, op, key, ok) ==
  [r EXCEPT !.calls = @ \cup {<<op, key>>},
            !.failed = IF ok THEN @ ELSE @ \cup {<<op, key>>}]

\* the request in p, its current call recorded
Cur(p, op, key, ok) == Called(req[p], op, key, ok)

CodecIdle == UNCHANGED <<codecPc, codecIn, codecBlob, codecOut>>

\* the request handlers touch none of the other programs' state
SideIdle == UNCHANGED <<resolve, indexer, earlier, demo>>

----------------------------------------------------------------------------
(* GET *)

StartGET(p, max) ==
  /\ CanStart(p, max)
  /\ started' = started + 1
  /\ req' = [req EXCEPT ![p] =
       [IdleReq EXCEPT !.kind = "GET", !.pc = "getDrawings",
                       !.tag = started + 1, !.before = bucket]]
  /\ UNCHANGED <<bucket, hist, faults>>
  /\ CodecIdle /\ SideIdle

\* a bug variant: the object's bytes are dropped
ContentNone(obj) == <<>>

\* obj ? await obj.arrayBuffer() : new ArrayBuffer(0)
Content(obj) == IF obj.present THEN obj.body ELSE <<>>

GetDrawings(p, ok) ==
  /\ req[p].kind = "GET" /\ req[p].pc = "getDrawings"
  /\ Outcome(ok)
  /\ IF ok
     THEN Return(p, [Cur(p, "get", DRAWINGS_KEY, ok) EXCEPT
                       !.respBody = Content(bucket[DRAWINGS_KEY])], 200)
     ELSE Return(p, Cur(p, "get", DRAWINGS_KEY, ok), 500)
  /\ UNCHANGED <<bucket, started>>
  /\ CodecIdle /\ SideIdle

----------------------------------------------------------------------------
(* POST *)

StartPOST(p, h, kind, max) ==
  /\ CanStart(p, max)
  /\ started' = started + 1
  /\ req' = [req EXCEPT ![p] =
       [IdleReq EXCEPT !.kind = "POST", !.pc = "getBlocked",
                       !.tag = started + 1, !.hdr = h,
                       !.body = Payload(started + 1, kind),
                       !.clientIP = getClientIP(h), !.before = bucket]]
  /\ UNCHANGED <<bucket, hist, faults>>
  /\ CodecIdle /\ SideIdle

\* getBlockedIPs: a failed read is caught and gives the empty set
getBlockedIPs(ok) == IF ok THEN NewSet(bucket[BLOCKED_IPS_KEY].body) ELSE <<>>

\* a bug variant: the catch is missing and the stored array is used
getDrawingMetadataUncaught(ok) == bucket[DRAWING_METADATA_KEY].body

\* getDrawingMetadata: a failed read is caught and gives []
getDrawingMetadata(ok) == IF ok THEN bucket[DRAWING_METADATA_KEY].body ELSE <<>>

\* a bug variant: && written for ||
OrDashesAnd(ip) == IF Truthy(ip) THEN <<"---">> ELSE ip

\* clientIP || "---"
OrDashes(ip) == IF Truthy(ip) THEN ip ELSE <<"---">>

PostGetBlocked(p, ok) ==
  /\ req[p].kind = "POST" /\ req[p].pc = "getBlocked"
  /\ Outcome(ok)
  /\ LET blockedIPs == getBlockedIPs(ok) IN
     IF SetHas(blockedIPs, OrDashes(req[p].clientIP))
     THEN Return(p, Cur(p, "get", BLOCKED_IPS_KEY, ok), 503)
     ELSE Goto(p, [Cur(p, "get", BLOCKED_IPS_KEY, ok) EXCEPT
                     !.blockedIPs = blockedIPs], "getDrawings")
  /\ UNCHANGED <<bucket, started>>
  /\ CodecIdle /\ SideIdle

PostGetDrawings(p, ok) ==
  /\ req[p].kind = "POST" /\ req[p].pc = "getDrawings"
  /\ Outcome(ok)
  /\ IF ~ok THEN Return(p, Cur(p, "get", DRAWINGS_KEY, ok), 500)
     ELSE LET existingBuffer == bucket[DRAWINGS_KEY].body
              parsed == parseDrawings(existingBuffer)
              drawingsData == Append(parsed, req[p].body)
              ser == serializeDrawings(drawingsData)
              r == [Cur(p, "get", DRAWINGS_KEY, ok) EXCEPT !.sawCount = Len(parsed)]
          IN IF ser.threw THEN Return(p, r, 500)
             ELSE Goto(p, [r EXCEPT !.drawingsData = drawingsData,
                                    !.newBuffer = ser.buf], "putDrawings")
  /\ UNCHANGED <<bucket, started>>
  /\ CodecIdle /\ SideIdle

\* a bug variant: a failed put of drawings.bin is swallowed like the others
PutThrowsNever(ok) == FALSE

\* await DRAWINGS.put(DRAWINGS_KEY, ...) has no catch of its own: a failed put
\* is thrown into the catch of the handler
PutThrows(ok) == ~ok

PostPutDrawings(p, ok) ==
  /\ req[p].kind = "POST" /\ req[p].pc = "putDrawings"
  /\ Outcome(ok)
  /\ IF PutThrows(ok)
     THEN Return(p, Cur(p, "put", DRAWINGS_KEY, ok), 500) /\ UNCHANGED bucket
     ELSE IF ok
     THEN /\ Put(DRAWINGS_KEY, req[p].newBuffer, p)
          /\ Goto(p, Wrote(Cur(p, "put", DRAWINGS_KEY, ok), DRAWINGS_KEY), "getMetadata")
     ELSE /\ UNCHANGED bucket
          /\ Goto(p, Cur(p, "put", DRAWINGS_KEY, ok), "getMetadata")
  /\ UNCHANGED started
  /\ CodecIdle /\ SideIdle

\* the entry POST pushes: id is Date.now() and a random suffix
NewEntry(r, rnd) ==
  [id |-> <<started, rnd>>, ip |-> r.clientIP, timestamp |-> started]

\* a bug variant: one blank too few
BackfilledOneShort(metadata, drawingCount) ==
  IF Len(metadata) < drawingCount
  THEN Blanks(drawingCount - Len(metadata) - 1) \o metadata
  ELSE metadata

\* backfillMetadata up to its own save: the array read, blanks prepended
Backfilled(metadata, drawingCount) ==
  IF Len(metadata) < drawingCount
  THEN Blanks(drawingCount - Len(metadata)) \o metadata
  ELSE metadata

PostGetMetadata(p, ok, rnd) ==
  /\ req[p].kind = "POST" /\ req[p].pc = "getMetadata"
  /\ Outcome(ok)
  /\ LET metadata == getDrawingMetadata(ok)
         drawingCount == Len(req[p].drawingsData) - 1
     IN IF Len(metadata) < drawingCount
        THEN Goto(p, [Cur(p, "get", DRAWING_METADATA_KEY, ok) EXCEPT
                        !.metadata = Backfilled(metadata, drawingCount)],
                  "saveBackfill")
        ELSE Goto(p, [Cur(p, "get", DRAWING_METADATA_KEY, ok) EXCEPT
                        !.metadata = Append(metadata, NewEntry(req[p], rnd)),
                        !.entry = NewEntry(req[p], rnd)],
                  "saveMetadata")
  /\ UNCHANGED <<bucket, started>>
  /\ CodecIdle /\ SideIdle

\* saveDrawingMetadata inside backfillMetadata: a failed put is swallowed
PostSaveBackfill(p, ok, rnd) ==
  /\ req[p].kind = "POST" /\ req[p].pc = "saveBackfill"
  /\ Outcome(ok)
  /\ LET r == [Cur(p, "put", DRAWING_METADATA_KEY, ok) EXCEPT
                  !.metadata = Append(@, NewEntry(req[p], rnd)),
                  !.entry = NewEntry(req[p], rnd)] IN
     IF ok
     THEN /\ Put(DRAWING_METADATA_KEY, req[p].metadata, p)
          /\ Goto(p, Wrote(r, DRAWING_METADATA_KEY), "saveMetadata")
     ELSE /\ UNCHANGED bucket
          /\ Goto(p, r, "saveMetadata")
  /\ UNCHANGED started
  /\ CodecIdle /\ SideIdle

PostSaveMetadata(p, ok) ==
  /\ req[p].kind = "POST" /\ req[p].pc = "saveMetadata"
  /\ Outcome(ok)
  /\ IF ok
     THEN /\ Put(DRAWING_METADATA_KEY, req[p].metadata, p)
          /\ Goto(p, Wrote(Cur(p, "put", DRAWING_METADATA_KEY, ok), DRAWING_METADATA_KEY), "fetch")
     ELSE /\ UNCHANGED bucket
          /\ Goto(p, Cur(p, "put", DRAWING_METADATA_KEY, ok), "fetch")
  /\ UNCHANGED started
  /\ CodecIdle /\ SideIdle

\* the webhook call: a rejected fetch is thrown into the handler's catch
PostFetch(p, ok) ==
  /\ req[p].kind = "POST" /\ req[p].pc = "fetch"
  /\ Outcome(ok)
  /\ Return(p, [Cur(p, "fetch", WEBHOOK, ok) EXCEPT !.fetchFailed = ~ok], IF ok THEN 200 ELSE 500)
  /\ UNCHANGED <<bucket, started>>
  /\ CodecIdle /\ SideIdle

----------------------------------------------------------------------------
(* DELETE *)

\* indexHeader ? parseInt(indexHeader, 10) : NaN
drawingIndexToDelete(indexHeader) ==
  IF Truthy(indexHeader) THEN parseInt(indexHeader) ELSE NaN

\* a bug variant: the header is compared without regard to case
shouldBlockIPAnyCase(blockIPHeader) == blockIPHeader \in { True, <<"TRUE">> }

shouldBlockIP(blockIPHeader) == blockIPHeader = True

\* a bug variant: the secret is only checked for presence
ValidateNoCompare(key, index) ==
  IF ~Truthy(key) \/ isNaN(drawingIndexToDelete(index))
                  \/ drawingIndexToDelete(index) < 0
  THEN 400
  ELSE 0

\* the two checks DELETE makes before it touches storage: 0 when both pass
Validate(key, index) ==
  IF ~Truthy(key) \/ isNaN(drawingIndexToDelete(index))
                  \/ drawingIndexToDelete(index) < 0
  THEN 400
  ELSE IF key # GUESTBOOK_SECRET_KEY THEN 403 ELSE 0

StartDELETE(p, key, index, block, max) ==
  /\ CanStart(p, max)
  /\ started' = started + 1
  /\ LET r == [IdleReq EXCEPT !.kind = "DELETE", !.pc = "getDrawings",
                              !.tag = started + 1, !.key = key,
                              !.index = index, !.block = block,
                              !.before = bucket]
     IN IF Validate(key, index) # 0
        THEN Return(p, r, Validate(key, index))
        ELSE Goto(p, r, "getDrawings")
  /\ UNCHANGED <<bucket, faults>>
  /\ CodecIdle /\ SideIdle

Idx(r) == drawingIndexToDelete(r.index)

\* a bug variant: the index equal to the record count is let through
OutOfBoundsStrict(index, count) == index > count

\* drawingIndexToDelete >= drawingsData.length
OutOfBounds(index, count) == index >= count

\* a bug variant: the zero-length file is not told apart
EmptyFileNever(fileContent) == FALSE

\* fileContent.length === 0
EmptyFile(fileContent) == Len(fileContent) = 0

DelGetDrawings(p, ok) ==
  /\ req[p].kind = "DELETE" /\ req[p].pc = "getDrawings"
  /\ Outcome(ok)
  /\ IF ~ok THEN Return(p, Cur(p, "get", DRAWINGS_KEY, ok), 500)
     ELSE LET obj == bucket[DRAWINGS_KEY]
              drawingsData == parseDrawings(obj.body)
              r == [Cur(p, "get", DRAWINGS_KEY, ok) EXCEPT !.sawCount = Len(drawingsData)]
          IN IF ~obj.present THEN Return(p, Cur(p, "get", DRAWINGS_KEY, ok), 404)
             ELSE IF EmptyFile(obj.body) THEN Return(p, Cur(p, "get", DRAWINGS_KEY, ok), 404)
             ELSE IF OutOfBounds(Idx(r), Len(drawingsData)) THEN Return(p, r, 400)
             ELSE Goto(p, [r EXCEPT !.drawingsData = drawingsData], "getMetadata")
  /\ UNCHANGED <<bucket, started>>
  /\ CodecIdle /\ SideIdle

\* DELETE from the return of backfillMetadata to its put of drawings.bin
AfterBackfill(p, r) ==
  LET entryIP == IF Idx(r) < Len(r.metadata)
                 THEN r.metadata[Idx(r) + 1].ip ELSE Undefined
      ipToBlock == IF shouldBlockIP(r.block) /\ Truthy(entryIP)
                   THEN entryIP ELSE Null
      drawingsData == Splice1(r.drawingsData, Idx(r))
      ser == serializeDrawings(drawingsData)
      r1 == [r EXCEPT !.ipToBlock = ipToBlock,
                      !.removed = IF Idx(r) < Len(r.drawingsData)
                                  THEN r.drawingsData[Idx(r) + 1] ELSE <<>>]
  IN IF ser.threw THEN Return(p, r1, 500)
     ELSE Goto(p, [r1 EXCEPT !.drawingsData = drawingsData,
                             !.newBuffer = ser.buf], "putDrawings")

DelGetMetadata(p, ok) ==
  /\ req[p].kind = "DELETE" /\ req[p].pc = "getMetadata"
  /\ Outcome(ok)
  /\ LET metadata == getDrawingMetadata(ok)
         drawingCount == Len(req[p].drawingsData)
         r == [Cur(p, "get", DRAWING_METADATA_KEY, ok) EXCEPT
                 !.metadata = Backfilled(metadata, drawingCount)]
     IN IF Len(metadata) < drawingCount
        THEN Goto(p, r, "saveBackfill")
        ELSE AfterBackfill(p, r)
  /\ UNCHANGED <<bucket, started>>
  /\ CodecIdle /\ SideIdle

DelSaveBackfill(p, ok) ==
  /\ req[p].kind = "DELETE" /\ req[p].pc = "saveBackfill"
  /\ Outcome(ok)
  /\ IF ok
     THEN /\ Put(DRAWING_METADATA_KEY, req[p].metadata, p)
          /\ AfterBackfill(p, Wrote(Cur(p, "put", DRAWING_METADATA_KEY, ok), DRAWING_METADATA_KEY))
     ELSE /\ UNCHANGED bucket
          /\ AfterBackfill(p, Cur(p, "put", DRAWING_METADATA_KEY, ok))
  /\ UNCHANGED started
  /\ CodecIdle /\ SideIdle

\* a bug variant: the entry of the removed record stays in the array
SpliceMetadataNone(metadata, i) == metadata

\* metadata.splice(drawingIndexToDelete, 1)
SpliceMetadata(metadata, i) == Splice1(metadata, i)

DelPutDrawings(p, ok) ==
  /\ req[p].kind = "DELETE" /\ req[p].pc = "putDrawings"
  /\ Outcome(ok)
  /\ IF PutThrows(ok)
     THEN Return(p, Cur(p, "put", DRAWINGS_KEY, ok), 500) /\ UNCHANGED bucket
     ELSE IF ok
     THEN /\ Put(DRAWINGS_KEY, req[p].newBuffer, p)
          /\ Goto(p, [Wrote(Cur(p, "put", DRAWINGS_KEY, ok), DRAWINGS_KEY) EXCEPT
                        !.metadata = SpliceMetadata(@, Idx(req[p]))], "saveMetadata")
     ELSE /\ UNCHANGED bucket
          /\ Goto(p, [Cur(p, "put", DRAWINGS_KEY, ok) EXCEPT
                        !.metadata = SpliceMetadata(@, Idx(req[p]))], "saveMetadata")
  /\ UNCHANGED started
  /\ CodecIdle /\ SideIdle

DelSaveMetadata(p, ok) ==
  /\ req[p].kind = "DELETE" /\ req[p].pc = "saveMetadata"
  /\ Outcome(ok)
  /\ LET r == IF ok THEN Wrote(Cur(p, "put", DRAWING_METADATA_KEY, ok), DRAWING_METADATA_KEY)
                    ELSE Cur(p, "put", DRAWING_METADATA_KEY, ok) IN
     /\ IF ok THEN Put(DRAWING_METADATA_KEY, req[p].metadata, p)
              ELSE UNCHANGED bucket
     /\ IF shouldBlockIP(r.block) /\ Truthy(r.ipToBlock)
        THEN Goto(p, r, "getBlocked")
        ELSE IF shouldBlockIP(r.block) /\ ~Truthy(r.ipToBlock)
        THEN Goto(p, r, "fetch")
        ELSE Return(p, r, 200)
  /\ UNCHANGED started
  /\ CodecIdle /\ SideIdle

DelGetBlocked(p, ok) ==
  /\ req[p].kind = "DELETE" /\ req[p].pc = "getBlocked"
  /\ Outcome(ok)
  /\ Goto(p, [Cur(p, "get", BLOCKED_IPS_KEY, ok) EXCEPT
                !.blockedIPs = SetAdd(getBlockedIPs(ok), req[p].ipToBlock)],
          "saveBlocked")
  /\ UNCHANGED <<bucket, started>>
  /\ CodecIdle /\ SideIdle

\* saveBlockedIPs: a failed put is swallowed
DelSaveBlocked(p, ok) ==
  /\ req[p].kind = "DELETE" /\ req[p].pc = "saveBlocked"
  /\ Outcome(ok)
  /\ IF ok
     THEN /\ Put(BLOCKED_IPS_KEY, req[p].blockedIPs, p)
          /\ Goto(p, Wrote(Cur(p, "put", BLOCKED_IPS_KEY, ok), BLOCKED_IPS_KEY), "fetch")
     ELSE /\ UNCHANGED bucket
          /\ Goto(p, Cur(p, "put", BLOCKED_IPS_KEY, ok), "fetch")
  /\ UNCHANGED started
  /\ CodecIdle /\ SideIdle

DelFetch(p, ok) ==
  /\ req[p].kind = "DELETE" /\ req[p].pc = "fetch"
  /\ Outcome(ok)
  /\ Return(p, [Cur(p, "fetch", WEBHOOK, ok) EXCEPT !.fetchFailed = ~ok], IF ok THEN 200 ELSE 500)
  /\ UNCHANGED <<bucket, started>>
  /\ CodecIdle /\ SideIdle

----------------------------------------------------------------------------
(* Codec harness: serializeDrawings, then parseDrawings of its result *)

CodecRecords ==
  { <<>>, <<1>>, Fill(2, SlotSize), <<3, delimiter[1]>>, Fill(4, SlotSize + 1) }

RECURSIVE SeqsUpTo(_, _)
SeqsUpTo(S, n) ==
  IF n = 0 THEN { <<>> }
  ELSE LET shorter == SeqsUpTo(S, n - 1) IN
       shorter \cup { Append(q, x) : q \in { t \in shorter : Len(t) = n - 1 }, x \in S }

CodecInputs == SeqsUpTo(CodecRecords, MaxCodecRecs)

NoBlob == [threw |-> FALSE, buf |-> <<>>]

\* arbitrary file contents for parseDrawings: delimiters and two other bytes
BlobBytes == {1, 2, delimiter[1]}

CodecBlobs == SeqsUpTo(BlobBytes, MaxBlobLen)

CodecEncode ==
  /\ codecPc = "in"
  /\ codecBlob' = serializeDrawings(codecIn)
  /\ codecPc' = "encoded"
  /\ UNCHANGED <<codecIn, codecOut, bucket, req, started, hist, faults>>
  /\ SideIdle

CodecDecode ==
  /\ codecPc = "encoded"
  /\ ~codecBlob.threw
  /\ codecOut' = parseDrawings(codecBlob.buf)
  /\ codecPc' = "decoded"
  /\ UNCHANGED <<codecIn, codecBlob, bucket, req, started, hist, faults>>
  /\ SideIdle

\* parseDrawings of a file content that serializeDrawings need not have made
CodecParse ==
  /\ codecPc = "blob"
  /\ codecOut' = parseDrawings(codecBlob.buf)
  /\ codecPc' = "parsed"
  /\ UNCHANGED <<codecIn, codecBlob, bucket, req, started, hist, faults>>
  /\ SideIdle

----------------------------------------------------------------------------
(* getClientIP on its own: every combination of the three headers *)

NoResolve == [pc |-> "off", hdr |-> NoHeaders, ip |-> Undefined]

\* CF-Connecting-IP and X-Real-IP: absent, empty, an address.
\* X-Forwarded-For: absent, empty, a list, a list whose first value is empty,
\* blanks only, a single address
ResolveInputs ==
  { [cf |-> c, xff |-> f, xri |-> r] :
      c \in { Null, EmptyStr, IPa, IPb },
      f \in { Null, EmptyStr, <<" ", "5.6.7.8", " ", ",", "1.2.3.4">>,
              <<",", "1.2.3.4">>, <<" ">>, IPb },
      r \in { Null, EmptyStr, IPa, IPb } }

ResolveIP ==
  /\ resolve.pc = "in"
  /\ resolve' = [resolve EXCEPT !.pc = "out", !.ip = getClientIP(resolve.hdr)]
  /\ UNCHANGED <<bucket, req, started, hist, faults, indexer, earlier, demo>>
  /\ CodecIdle

----------------------------------------------------------------------------
(* src/utils/generateSearchIndex.mjs: getAllMdxFiles and generateSearchIndex, *)
(* one action per file-system call                                          *)

NoIndexer ==
  [pc |-> "off", dir |-> <<>>, files |-> <<>>, documents |-> <<>>,
   writes |-> 0, warned |-> FALSE, failed |-> {}]

\* what the posts directory may hold: posts, a directory whose name ends in
\* .mdx, a file of another type
Dirents ==
  [i \in 1..MaxPosts |-> [name |-> <<"post", i, ".mdx">>, isFile |-> TRUE]]
    \o << [name |-> <<"drafts", ".mdx">>, isFile |-> FALSE],
          [name |-> <<"notes", ".md">>, isFile |-> TRUE] >>

RECURSIVE Filter(_, _)
Filter(a, keep) ==
  IF a = <<>> THEN <<>>
  ELSE (IF a[1] \in keep THEN <<a[1]>> ELSE <<>>) \o Filter(Tail(a), keep)

\* the listings fs.readdir may return: names are distinct
Listings == { Filter(Dirents, K) : K \in SUBSET { Dirents[i] : i \in 1..Len(Dirents) } }

\* a bug variant: dirent.isFile() is not consulted
IsMdxByName(dirent) == dirent.name[Len(dirent.name)] = ".mdx"

\* dirent.isFile() && dirent.name.endsWith('.mdx')
IsMdxFile(dirent) == dirent.isFile /\ dirent.name[Len(dirent.name)] = ".mdx"

\* `/posts/${dirent.name.replace(/\.mdx$/, '')}`
Slug(dirent) == <<"/posts/">> \o SubSeq(dirent.name, 1, Len(dirent.name) - 1)

\* getAllMdxFiles has returned these documents: generateSearchIndex goes on
\* to its length test
GotDocuments(documents) ==
  [indexer EXCEPT !.documents = documents,
                  !.warned = (Len(documents) = 0),
                  !.pc = IF Len(documents) = 0 THEN "done" ELSE "mkdir"]

Recorded(x, call, ok) == [x EXCEPT !.failed = IF ok THEN @ ELSE @ \cup {call}]

IndexerFrame ==
  /\ UNCHANGED <<bucket, req, started, hist, faults, resolve, earlier, demo>>
  /\ CodecIdle

Readdir(ok) ==
  /\ indexer.pc = "readdir"
  /\ LET files == Filter(indexer.dir, { d \in { Dirents[i] : i \in 1..Len(Dirents) } : IsMdxFile(d) }) IN
       indexer' = Recorded(
         IF ~ok \/ files = <<>> THEN GotDocuments(<<>>)
         ELSE [indexer EXCEPT !.files = files, !.pc = "readFile"], "readdir", ok)
  /\ IndexerFrame

\* the reads of Promise.all: the first rejection is caught, all fulfilled
\* gives the documents in listing order
ReadFile(ok) ==
  /\ indexer.pc = "readFile"
  /\ LET n == Len(indexer.documents) + 1
         documents == Append(indexer.documents, [url |-> Slug(indexer.files[n])]) IN
       indexer' = Recorded(
         IF ~ok THEN GotDocuments(<<>>)
         ELSE IF n = Len(indexer.files) THEN GotDocuments(documents)
         ELSE [indexer EXCEPT !.documents = documents], "readFile", ok)
  /\ IndexerFrame

Mkdir(ok) ==
  /\ indexer.pc = "mkdir"
  /\ indexer' = Recorded([indexer EXCEPT !.pc = IF ok THEN "writeFile" ELSE "done"],
                         "mkdir", ok)
  /\ IndexerFrame

WriteFile(ok) ==
  /\ indexer.pc = "writeFile"
  /\ indexer' = Recorded([indexer EXCEPT !.pc = "done", !.writes = @ + 1],
                         "writeFile", ok)
  /\ IndexerFrame

----------------------------------------------------------------------------
(* The earlier endpoint (unnamed/part_004): the same log without metadata   *)
(* and without blocking.  Its parseDrawings and serializeDrawings are the   *)
(* same text as today's.  It is given each request after the current        *)
(* endpoint has answered it, and handles it in one piece: requests come one *)
(* at a time and none of its calls fails.                                   *)

NoEarlier == [n |-> 0, log |-> [present |-> FALSE, body |-> <<>>], status |-> 0]

EarlierPOST(log, buffer) ==
  LET existingBuffer == IF log.present THEN log.body ELSE <<>>
      drawingsData == Append(parseDrawings(existingBuffer), buffer)
      newBuffer == serializeDrawings(drawingsData)
  IN IF newBuffer.threw THEN [log |-> log, status |-> 500]
     ELSE [log |-> [present |-> TRUE, body |-> newBuffer.buf], status |-> 200]

EarlierDELETE(log, clientKey, indexHeader) ==
  LET index == IF Truthy(indexHeader) THEN parseInt(indexHeader) ELSE NaN
      drawingsData == parseDrawings(log.body)
      newBuffer == serializeDrawings(Splice1(drawingsData, index))
  IN IF ~Truthy(clientKey) \/ isNaN(index) \/ index < 0
     THEN [log |-> log, status |-> 400]
     ELSE IF clientKey # GUESTBOOK_SECRET_KEY THEN [log |-> log, status |-> 403]
     ELSE IF ~log.present THEN [log |-> log, status |-> 404]
     ELSE IF Len(log.body) = 0 THEN [log |-> log, status |-> 404]
     ELSE IF index >= Len(drawingsData) THEN [log |-> log, status |-> 400]
     ELSE IF newBuffer.threw THEN [log |-> log, status |-> 500]
     ELSE [log |-> [present |-> TRUE, body |-> newBuffer.buf], status |-> 200]

\* the earlier endpoint answers the request the current one has just answered
EarlierHandle ==
  /\ req[1].pc = "done" /\ earlier.n < started
  /\ LET r == req[1]
         out == CASE r.kind = "POST" -> EarlierPOST(earlier.log, r.body)
                  [] r.kind = "DELETE" -> EarlierDELETE(earlier.log, r.key, r.index)
                  [] r.kind = "GET" -> [log |-> earlier.log, status |-> 200]
     IN earlier' = [n |-> started, log |-> out.log, status |-> out.status]
  /\ UNCHANGED <<bucket, req, started, hist, faults, resolve, indexer, demo>>
  /\ CodecIdle

----------------------------------------------------------------------------
(* src/components/posts/docker/ImageContainerDemo.tsx: the reducer, and one *)
(* action of the model per dispatch                                         *)

initialState ==
  [images |-> <<>>, containers |-> <<>>, dockerfileCode |-> <<"FROM node:18-alpine">>]

NoDemo == [pc |-> "off", state |-> initialState, last |-> [type |-> "none"]]

\* values of generateId(): Math.random() may give the same one twice
GeneratedIds == { <<"k3x9">>, <<"p0q7">> }

\* a bug variant: only a running container keeps its image
hasRunningContainersOnly(state, imageId) ==
  \E i \in 1..Len(state.containers) :
    state.containers[i].imageId = imageId /\ state.containers[i].status = "running"

\* state.containers.some(c => c.imageId === action.imageId)
hasRunningContainers(state, imageId) ==
  \E i \in 1..Len(state.containers) : state.containers[i].imageId = imageId

\* rnd: what Date.now(), generateId() and Math.random() give in this call
reducer(state, action, rnd) ==
  CASE action.type = "BUILD_START" ->
         [state EXCEPT !.images =
            Append(@, [id |-> <<"building-", rnd.now>>, name |-> "my-app",
                       tag |-> "latest", isBuilding |-> TRUE])]
    [] action.type = "BUILD_COMPLETE" ->
         IF ~\E i \in 1..Len(state.images) : state.images[i].isBuilding THEN state
         ELSE [state EXCEPT !.images =
                 [i \in 1..Len(@) |->
                    IF @[i].isBuilding
                    THEN [@[i] EXCEPT !.id = rnd.id, !.isBuilding = FALSE]
                    ELSE @[i]]]
    [] action.type = "DELETE_IMAGE" ->
         IF hasRunningContainers(state, action.imageId) THEN state
         ELSE [state EXCEPT !.images =
                 Filter(@, { @[i] : i \in { j \in 1..Len(@) : @[j].id # action.imageId } })]
    [] action.type = "START_CONTAINER" ->
         IF ~\E i \in 1..Len(state.images) : state.images[i].id = action.imageId
         THEN state
         ELSE [state EXCEPT !.containers =
                 Append(@, [id |-> rnd.id, name |-> rnd.name,
                            imageId |-> action.imageId, status |-> "running"])]
    [] action.type = "STOP_CONTAINER" ->
         [state EXCEPT !.containers =
            [i \in 1..Len(@) |->
               IF @[i].id = action.containerId
               THEN [@[i] EXCEPT !.status = "stopped"] ELSE @[i]]]
    [] action.type = "DELETE_CONTAINER" ->
         [state EXCEPT !.containers =
            Filter(@, { @[i] : i \in { j \in 1..Len(@) : @[j].id # action.containerId } })]
    [] action.type = "UPDATE_CODE" ->
         [state EXCEPT !.dockerfileCode = action.code]
    [] OTHER -> state

\* dispatch(action); now, id and name are what Date.now(), generateId() and
\* the random name give when the reducer asks for them
Dispatch(action, now, id, name) ==
  /\ demo.pc = "on"
  /\ demo' = [demo EXCEPT
       !.state = reducer(demo.state, action, [now |-> now, id |-> id, name |-> name]),
       !.last = action]
  /\ UNCHANGED <<bucket, req, started, hist, faults, resolve, indexer, earlier>>
  /\ CodecIdle

----------------------------------------------------------------------------
(* Specifications *)

CodecOff == codecPc = "off" /\ codecIn = <<>> /\ codecBlob = NoBlob /\ codecOut = <<>>

SideOff ==
  /\ resolve = NoResolve
  /\ indexer = NoIndexer
  /\ earlier = NoEarlier
  /\ demo = NoDemo

StoreOff ==
  /\ bucket = EmptyBucket
  /\ req = [p \in Procs |-> IdleReq]
  /\ started = 0
  /\ hist = <<>>
  /\ faults = 0

InitialLogs ==
  { Absent, Obj(<<>>, 0) }
    \cup { Obj(serializeDrawings(LegacyLog(k)).buf, 0) : k \in 1..MaxLegacy }

InitStore ==
  /\ bucket \in { [EmptyBucket EXCEPT ![DRAWINGS_KEY] = log] : log \in InitialLogs }
  /\ req = [p \in Procs |-> IdleReq]
  /\ started = 0
  /\ hist = <<>>
  /\ faults = 0

TrackedStore(k) ==
  [EmptyBucket EXCEPT
     ![DRAWINGS_KEY] = Obj(serializeDrawings(SeedLog(k)).buf, 0),
     ![DRAWING_METADATA_KEY] = Obj([i \in 1..k |-> SeedEntry(i)], 0)]

InitConc ==
  /\ bucket \in { EmptyBucket } \cup { TrackedStore(k) : k \in 1..MaxSeed }
  /\ req = [p \in Procs |-> IdleReq]
  /\ started = 0
  /\ hist = <<>>
  /\ faults = 0
  /\ CodecOff /\ SideOff

Init ==
  /\ InitStore
  /\ CodecOff /\ SideOff

InitCodec ==
  /\ bucket = EmptyBucket
  /\ req = [p \in Procs |-> IdleReq]
  /\ started = 0
  /\ hist = <<>>
  /\ faults = 0
  /\ \/ codecPc = "in" /\ codecIn \in CodecInputs /\ codecBlob = NoBlob
     \/ /\ codecPc = "blob" /\ codecIn = <<>>
        /\ codecBlob \in { [threw |-> FALSE, buf |-> b] : b \in CodecBlobs }
  /\ codecOut = <<>>
  /\ SideOff

StartAny(p, max, posts, deletes) ==
  \/ StartGET(p, max)
  \/ \E i \in posts : StartPOST(p, i.hdr, i.kind, max)
  \/ \E i \in deletes : StartDELETE(p, i.key, i.index, i.block, max)

\* one step of the handler running in p; oks: the outcomes a call may have,
\* rnds: the values Math.random() may give
StepWith(p, oks, rnds) ==
  \/ \E ok \in oks : GetDrawings(p, ok)
  \/ \E ok \in oks : PostGetBlocked(p, ok)
  \/ \E ok \in oks : PostGetDrawings(p, ok)
  \/ \E ok \in oks : PostPutDrawings(p, ok)
  \/ \E ok \in oks, rnd \in rnds : PostGetMetadata(p, ok, rnd)
  \/ \E ok \in oks, rnd \in rnds : PostSaveBackfill(p, ok, rnd)
  \/ \E ok \in oks : PostSaveMetadata(p, ok)
  \/ \E ok \in oks : PostFetch(p, ok)
  \/ \E ok \in oks : DelGetDrawings(p, ok)
  \/ \E ok \in oks : DelGetMetadata(p, ok)
  \/ \E ok \in oks : DelSaveBackfill(p, ok)
  \/ \E ok \in oks : DelPutDrawings(p, ok)
  \/ \E ok \in oks : DelSaveMetadata(p, ok)
  \/ \E ok \in oks : DelGetBlocked(p, ok)
  \/ \E ok \in oks : DelSaveBlocked(p, ok)
  \/ \E ok \in oks : DelFetch(p, ok)

Step(p, oks) == StepWith(p, oks, RandSuffixes)

\* concurrent requests, every storage and webhook call succeeds
Next == \E p \in Procs : StartAny(p, MaxConcReq, ConcPostInputs, ConcDeleteInputs) \/ Step(p, {TRUE})

Spec == InitConc /\ [][Next]_vars

\* requests executed one at a time, every call succeeds
NextSeq == StartAny(1, MaxReq, PostInputs, DeleteInputs) \/ Step(1, {TRUE})

SpecSeq == Init /\ [][NextSeq]_vars

\* requests executed one at a time, calls may fail
NextFault == StartAny(1, MaxReq, PostInputs, DeleteInputs) \/ Step(1, BOOLEAN)

SpecFault == Init /\ [][NextFault]_vars

\* requests executed one at a time, every call succeeds: longer sequences of
\* submissions and blocking deletions
NextMod == StartAny(1, MaxModReq, ModPostInputs, ModDeleteInputs) \/ Step(1, {TRUE})

SpecMod == Init /\ [][NextMod]_vars

\* a tracked log after moderation: k records as in TrackedStore, and the
\* address 1.2.3.4 blocked by a DELETE of a later record it had submitted
ModeratedStore(k) ==
  [TrackedStore(k) EXCEPT ![BLOCKED_IPS_KEY] = Obj(<<IPa>>, 0)]

InitModFault ==
  /\ bucket \in { [EmptyBucket EXCEPT ![DRAWINGS_KEY] = log] : log \in InitialLogs }
                \cup { ModeratedStore(k) : k \in 1..MaxSeed }
  /\ req = [p \in Procs |-> IdleReq]
  /\ started = 0
  /\ hist = <<>>
  /\ faults = 0
  /\ CodecOff /\ SideOff

\* submissions and blocking deletions one at a time, calls may fail
NextModFault ==
  StartAny(1, MaxReq, ModPostInputs, ModDeleteInputs)
    \/ StepWith(1, BOOLEAN, OneSuffix)

SpecModFault == InitModFault /\ [][NextModFault]_vars

NextCodec == CodecEncode \/ CodecDecode \/ CodecParse

SpecCodec == InitCodec /\ [][NextCodec]_vars

\* the two endpoints side by side on the same initial drawings.bin, requests
\* one at a time, every call succeeds
InitRefine ==
  /\ InitStore /\ CodecOff
  /\ earlier = [NoEarlier EXCEPT
                  !.log = [present |-> bucket[DRAWINGS_KEY].present,
                           body |-> bucket[DRAWINGS_KEY].body]]
  /\ resolve = NoResolve /\ indexer = NoIndexer /\ demo = NoDemo

NextRefine ==
  \/ earlier.n = started /\ StartAny(1, MaxReq, PostInputs, DeleteInputs)
  \/ Step(1, {TRUE})
  \/ EarlierHandle

SpecRefine == InitRefine /\ [][NextRefine]_vars

InitDemo ==
  /\ StoreOff /\ CodecOff
  /\ demo = [NoDemo EXCEPT !.pc = "on"]
  /\ resolve = NoResolve /\ indexer = NoIndexer /\ earlier = NoEarlier

\* every dispatch the reducer accepts, START_CONTAINER only for images that
\* are not building
NextDemo ==
  LET images == demo.state.images
      building == { images[i].id : i \in { j \in 1..Len(images) : images[j].isBuilding } }
      present == { images[i].id : i \in 1..Len(images) }
  IN
  \* Date.now(): two builds may start in the same millisecond
  \/ \E now \in {1, 2} :
       /\ Len(images) < MaxImages
       /\ Dispatch([type |-> "BUILD_START"], now, <<>>, "")
  \/ \E id \in GeneratedIds : Dispatch([type |-> "BUILD_COMPLETE"], 0, id, "")
  \/ \E imageId \in GeneratedIds \cup present :
       Dispatch([type |-> "DELETE_IMAGE", imageId |-> imageId], 0, <<>>, "")
  \/ \E imageId \in (GeneratedIds \cup present) \ building, id \in GeneratedIds :
       /\ Len(demo.state.containers) < MaxContainers
       /\ Dispatch([type |-> "START_CONTAINER", imageId |-> imageId], 0, id,
                   "delectable-dodo")
  \/ \E containerId \in GeneratedIds :
       Dispatch([type |-> "STOP_CONTAINER", containerId |-> containerId], 0, <<>>, "")
  \/ \E containerId \in GeneratedIds :
       Dispatch([type |-> "DELETE_CONTAINER", containerId |-> containerId], 0, <<>>, "")
  \/ Dispatch([type |-> "UPDATE_CODE", code |-> <<"FROM scratch">>], 0, <<>>, "")

SpecDemo == InitDemo /\ [][NextDemo]_vars

InitResolve ==
  /\ StoreOff /\ CodecOff
  /\ resolve \in { [pc |-> "in", hdr |-> h, ip |-> Undefined] : h \in ResolveInputs }
  /\ indexer = NoIndexer /\ earlier = NoEarlier /\ demo = NoDemo

InitIndexer ==
  /\ StoreOff /\ CodecOff
  /\ indexer \in { [NoIndexer EXCEPT !.pc = "readdir", !.dir = l] : l \in Listings }
  /\ resolve = NoResolve /\ earlier = NoEarlier /\ demo = NoDemo

NextIndexer ==
  \/ \E ok \in BOOLEAN : Readdir(ok)
  \/ \E ok \in BOOLEAN : ReadFile(ok)
  \/ \E ok \in BOOLEAN : Mkdir(ok)
  \/ \E ok \in BOOLEAN : WriteFile(ok)

SpecIndexer == InitIndexer /\ [][NextIndexer]_vars

SpecResolve == InitResolve /\ [][ResolveIP]_vars

----------------------------------------------------------------------------
(* Claims *)

Done(p) == req[p].pc = "done"

NoDelimiterIn(records) == \A i \in 1..Len(records) : ~Has255(records[i])

\* C1: for every sequence of records none of which contains the byte 255,
\* parseDrawings(serializeDrawings(seq)) returns exactly seq: the encoder
\* returns a blob, and decoding it gives the same records in the same order.
CodecRoundTrip ==
  (codecPc \in {"encoded", "decoded"} /\ NoDelimiterIn(codecIn))
    => /\ ~codecBlob.threw
       /\ codecPc = "decoded" => codecOut = codecIn

\* the bodies of the requests completed before the last one
EarlierBodies == [i \in 1..(Len(hist) - 1) |-> hist[i].body]

\* the completed requests are N >= 1 POSTs that returned 200 on a log that
\* held no record, with payloads free of 255, and then one GET
PostsThenGet ==
  /\ Len(hist) >= 2
  /\ hist[Len(hist)].kind = "GET" /\ hist[Len(hist)].status = 200
  /\ hist[1].sawCount = 0
  /\ \A i \in 1..(Len(hist) - 1) :
       hist[i].kind = "POST" /\ hist[i].status = 200 /\ ~Has255(hist[i].body)

\* C2: after N POSTs that each returned 200, run one at a time from an absent
\* or empty log with distinct payloads free of 255, the body GET returns
\* decodes to exactly those N payloads in submission order.
AppendMonotonic ==
  PostsThenGet => parseDrawings(hist[Len(hist)].respBody) = EarlierBodies

\* the records of drawings.bin when the request in p started
RecordsBefore(p) == parseDrawings(req[p].before[DRAWINGS_KEY].body)

\* p ran a DELETE with the right secret and an index inside the log it found
DeletedInRange(p) ==
  /\ Done(p) /\ req[p].kind = "DELETE"
  /\ req[p].key = GUESTBOOK_SECRET_KEY
  /\ Idx(req[p]) >= 0 /\ Idx(req[p]) < Len(RecordsBefore(p))

\* C3: a DELETE with the right secret and an index i below the record count
\* n >= 1 returns 200, and the log then decodes to the previous records with
\* the one at position i removed, the others unchanged and in order.
DeleteRemovesExactlyOne ==
  DeletedInRange(1)
    => /\ req[1].status = 200
       /\ StoredDrawings = Splice1(RecordsBefore(1), Idx(req[1]))

\* p and q are two POSTs that both found the log without a record, both
\* returned 200, and one of them made the last write of drawings.bin
BothAppendedToEmpty(p, q) ==
  /\ p # q
  /\ Done(p) /\ req[p].kind = "POST" /\ req[p].status = 200 /\ req[p].sawCount = 0
  /\ Done(q) /\ req[q].kind = "POST" /\ req[q].status = 200 /\ req[q].sawCount = 0
  /\ bucket[DRAWINGS_KEY].writer = req[q].tag

\* C4: when two POSTs both read the empty log before either wrote and both
\* returned 200, the stored log decodes to exactly one record, the last
\* writer's; the other POST's record is not in the log.
LostUpdate ==
  \A p, q \in Procs :
    BothAppendedToEmpty(p, q) => StoredDrawings = <<req[q].body>>

LostUpdateWitness ==
  \E p, q \in Procs :
    /\ BothAppendedToEmpty(p, q)
    /\ req[p].body # req[q].body
    /\ Len(StoredDrawings) = 1
    /\ \A i \in 1..Len(StoredDrawings) : StoredDrawings[i] # req[p].body

\* p is about to get the answer of its read of blocked-ips.json while the
\* persisted set holds its resolved client IP
ReadsWhileBlocked(p) ==
  /\ req[p].kind = "POST" /\ req[p].pc = "getBlocked"
  /\ req'[p] # req[p]
  /\ Truthy(req[p].clientIP)
  /\ SetHas(StoredBlocked, req[p].clientIP)

\* C5: a POST whose resolved client IP is in the persisted blocked set
\* returns 503 and has written none of the three storage objects.
BlockedSubmitterRejected ==
  [][\A p \in Procs :
       ReadsWhileBlocked(p)
         => /\ req'[p].pc = "done" /\ req'[p].status = 503
            /\ req'[p].wrote = {}
            /\ bucket' = bucket]_vars

BlockedSubmitterRejectedWitness ==
  \E p \in Procs :
    /\ Done(p) /\ req[p].kind = "POST" /\ req[p].status = 503
    /\ SetHas(StoredBlocked, req[p].clientIP)
    /\ req[p].wrote = {}

\* the entry that the POST which created this record recorded; a record
\* from before metadata tracking has the blank entry
RecordedFor(record) ==
  IF record[1] >= LegacyByte(1) THEN BlankEntry
  ELSE IF \E i \in 1..Len(hist) : hist[i].tag = record[1]
       THEN hist[CHOOSE i \in 1..Len(hist) : hist[i].tag = record[1]].entry
       ELSE BlankEntry

Aligned ==
  /\ Len(StoredMetadata) = Len(StoredDrawings)
  /\ \A i \in 1..Len(StoredDrawings) :
       i <= Len(StoredMetadata) => StoredMetadata[i] = RecordedFor(StoredDrawings[i])

\* a POST or DELETE has just completed and no payload so far held a 255
CompletedWrite ==
  /\ Done(1) /\ req[1].kind \in {"POST", "DELETE"}
  /\ \A i \in 1..Len(hist) : ~Has255(hist[i].body)

\* some completed request has written drawing-metadata.json
Tracked == \E i \in 1..Len(hist) : DRAWING_METADATA_KEY \in hist[i].wrote

\* C6 as stated: from k >= 0 legacy records and no metadata, after every
\* completed POST or DELETE of a sequence run one at a time, the metadata
\* array has as many entries as the log has records, and entry i is the one
\* recorded by the POST that created record i (blank for a legacy record).
MetadataAligned == CompletedWrite => Aligned

\* C6 amended: the same, after every completed POST or DELETE from the first
\* request that writes drawing-metadata.json onwards.
MetadataAlignedOnceTracked == (CompletedWrite /\ Tracked) => Aligned

MetadataAlignedWitness ==
  /\ CompletedWrite /\ Tracked /\ Aligned
  /\ \E i \in 1..Len(hist) : hist[i].kind = "DELETE" /\ hist[i].status = 200
  /\ \E i, j \in 1..Len(StoredMetadata) :
       StoredMetadata[i] = BlankEntry /\ Truthy(StoredMetadata[j].ip)

\* the client IP resolved by the POST that created this record
CreatorIP(record) ==
  IF record[1] >= SeedByte(1) THEN SeedIP(record[1] - SeedByte(0))
  ELSE IF \E q \in Procs : req[q].tag = record[1]
       THEN req[CHOOSE q \in Procs : req[q].tag = record[1]].clientIP
       ELSE Undefined

\* C7: whenever a DELETE with block-ip "true" adds an IP to the blocked set,
\* that IP is the client IP resolved by the POST that created the record the
\* DELETE removed from drawings.bin.
BlockTargetsSubmitter ==
  \A p \in Procs :
    (req[p].kind = "DELETE" /\ BLOCKED_IPS_KEY \in req[p].wrote)
      => req[p].ipToBlock = CreatorIP(req[p].removed)

\* p ran a DELETE with the right secret and an index at or past the end of
\* the log it found
DeletedPastEnd(p) ==
  /\ Done(p) /\ req[p].kind = "DELETE"
  /\ req[p].key = GUESTBOOK_SECRET_KEY
  /\ Idx(req[p]) >= Len(RecordsBefore(p))

Untouched(p) == req[p].wrote = {} /\ bucket = req[p].before

\* C8 as stated: a DELETE with the right secret and an index >= the record
\* count returns 400 and leaves the three storage objects as they were.
OutOfBoundsDelete ==
  DeletedPastEnd(1) => (req[1].status = 400 /\ Untouched(1))

HadBytes(p) ==
  /\ req[p].before[DRAWINGS_KEY].present
  /\ Len(req[p].before[DRAWINGS_KEY].body) > 0

\* C8 amended: the same for a drawings.bin that is present and not of length
\* zero (on an absent or zero-length object the answer is 404).
OutOfBoundsDeleteNonEmpty ==
  (DeletedPastEnd(1) /\ HadBytes(1)) => (req[1].status = 400 /\ Untouched(1))

OutOfBoundsDeleteWitness ==
  /\ DeletedPastEnd(1) /\ HadBytes(1)
  /\ Idx(req[1]) = Len(RecordsBefore(1))
  /\ req[1].status = 400 /\ Untouched(1)

\* p ran a DELETE whose secret-key header is there and is not the secret
DeletedWithWrongKey(p) ==
  /\ Done(p) /\ req[p].kind = "DELETE"
  /\ Truthy(req[p].key) /\ req[p].key # GUESTBOOK_SECRET_KEY

\* C9 as stated: a DELETE whose secret-key header is present but differs
\* from the server secret returns 403 and writes no storage object.
WrongSecret ==
  DeletedWithWrongKey(1) => (req[1].status = 403 /\ Untouched(1))

ValidIndex(p) == ~isNaN(Idx(req[p])) /\ Idx(req[p]) >= 0

\* C9 amended: the same when the drawing-index header is a non-negative
\* integer (an absent, non-numeric or negative index is answered 400 first).
WrongSecretValidIndex ==
  (DeletedWithWrongKey(1) /\ ValidIndex(1))
    => (req[1].status = 403 /\ Untouched(1))

WrongSecretWitness ==
  /\ DeletedWithWrongKey(1) /\ ValidIndex(1)
  /\ shouldBlockIP(req[1].block)
  /\ Idx(req[1]) < Len(RecordsBefore(1))
  /\ req[1].status = 403 /\ Untouched(1)

\* C10: when the webhook call fails after the storage writes of a POST or of
\* a DELETE with block-ip, the request still returns 200 and what it wrote
\* remains stored.
WebhookFailureIsolated ==
  \A p \in Procs :
    (Done(p) /\ req[p].fetchFailed)
      => /\ req[p].status = 200
         /\ \A k \in req[p].wrote : bucket[k].writer = req[p].tag

\* C11: whatever POSTs and DELETEs with block-ip came before, a POST carrying
\* none of CF-Connecting-IP, X-Forwarded-For and X-Real-IP is never answered
\* 503.
UnresolvedNeverBlocked ==
  \A p \in Procs :
    (Done(p) /\ req[p].kind = "POST" /\ req[p].hdr = NoHeaders)
      => req[p].status # 503

\* the metadata array stored when the request in p started
MetadataBefore(p) == req[p].before[DRAWING_METADATA_KEY].body

\* p ran a POST, none of its calls failed, and it found fewer metadata
\* entries than records
PostedOnShortMetadata(p) ==
  /\ Done(p) /\ req[p].kind = "POST" /\ req[p].failed = {}
  /\ Len(MetadataBefore(p)) < Len(RecordsBefore(p))

\* C12: on a log of k records with m < k metadata entries, a POST run alone
\* without storage failures leaves k - m blank entries, then the m entries
\* that were there in their order, then one entry with the submitter's
\* resolved IP: k + 1 entries in all.
MetadataBackfill ==
  PostedOnShortMetadata(1)
    => /\ StoredMetadata =
            Blanks(Len(RecordsBefore(1)) - Len(MetadataBefore(1)))
              \o MetadataBefore(1) \o <<req[1].entry>>
       /\ req[1].entry.ip = req[1].clientIP
       /\ req[1].entry # BlankEntry

\* r1 ++ [255] ++ r2 ++ ... ++ [255] ++ rn
RECURSIVE Joined(_)
Joined(records) ==
  IF Len(records) = 0 THEN <<>>
  ELSE IF Len(records) = 1 THEN records[1]
  ELSE records[1] \o delimiter \o Joined(Tail(records))

\* C13: for every sequence of n >= 1 records, serializeDrawings returns
\* exactly the records joined by single delimiter bytes: no leading or
\* trailing delimiter, no padding, length the sum of the record lengths plus
\* n - 1.
EncodeFormat ==
  (codecPc \in {"encoded", "decoded"} /\ Len(codecIn) >= 1)
    => /\ ~codecBlob.threw
       /\ codecBlob.buf = Joined(codecIn)

\* the records concatenated in order
RECURSIVE Flatten(_)
Flatten(records) ==
  IF Len(records) = 0 THEN <<>> ELSE records[1] \o Flatten(Tail(records))

\* the blob with every byte 255 taken out
Without255(blob) == SelectSeq(blob, LAMBDA b : b # delimiter[1])

\* the bytes after the last 255 of the blob (all of it when it has none)
RECURSIVE AfterLastDelimiter(_)
AfterLastDelimiter(blob) ==
  IF blob = <<>> \/ blob[Len(blob)] = delimiter[1] THEN <<>>
  ELSE Append(AfterLastDelimiter(SubSeq(blob, 1, Len(blob) - 1)), blob[Len(blob)])

\* C14: for every byte blob parseDrawings returns a sequence in which no
\* record is empty and none contains 255, whose records concatenated equal
\* the blob without its 255 bytes; the empty blob and a blob of 255s only
\* decode to the empty sequence; bytes after the final delimiter are the
\* last record.
DecodeTotal ==
  codecPc = "parsed"
    => /\ \A i \in 1..Len(codecOut) : codecOut[i] # <<>> /\ ~Has255(codecOut[i])
       /\ Flatten(codecOut) = Without255(codecBlob.buf)
       /\ Without255(codecBlob.buf) = <<>> => codecOut = <<>>
       /\ AfterLastDelimiter(codecBlob.buf) # <<>>
            => codecOut[Len(codecOut)] = AfterLastDelimiter(codecBlob.buf)

DecodeTotalWitness ==
  /\ codecPc = "parsed" /\ Len(codecBlob.buf) = MaxBlobLen
  /\ codecBlob.buf[1] = delimiter[1] /\ codecBlob.buf[2] = delimiter[1]
  /\ codecBlob.buf[Len(codecBlob.buf)] # delimiter[1]
  /\ Len(codecOut) = 1 /\ codecOut[1] = AfterLastDelimiter(codecBlob.buf)

\* the header is a decimal integer: an optional sign, then digits only
IsNumeral(s) ==
  LET t == IF s # <<>> /\ (Head(s) = "-" \/ Head(s) = "+") THEN Tail(s) ELSE s
  IN t # <<>> /\ \A i \in 1..Len(t) : IsDigit(t[i])

\* p ran a DELETE without a secret-key header, or with a drawing-index header
\* that is absent, not a number, or a negative number
DeletedInvalid(p) ==
  /\ Done(p) /\ req[p].kind = "DELETE"
  /\ \/ req[p].key = Null
     \/ req[p].index = Null
     \/ ~IsNumeral(req[p].index)
     \/ parseInt(req[p].index) < 0

\* C15: a DELETE whose secret-key header is absent, or whose drawing-index
\* header is absent, non-numeric or negative, returns 400 and has made no
\* storage read or write.
DeleteValidation ==
  DeletedInvalid(1)
    => (req[1].status = 400 /\ req[1].calls = {} /\ Untouched(1))

\* p ran a DELETE with the right secret and a non-negative integer index
\* while drawings.bin was absent or of length zero
DeletedOnNothing(p) ==
  /\ Done(p) /\ req[p].kind = "DELETE"
  /\ req[p].key = GUESTBOOK_SECRET_KEY
  /\ IsNumeral(req[p].index) /\ parseInt(req[p].index) >= 0
  /\ \/ ~req[p].before[DRAWINGS_KEY].present
     \/ Len(req[p].before[DRAWINGS_KEY].body) = 0

\* C16: a DELETE with the correct secret and a valid non-negative index
\* returns 404 and writes no storage object when drawings.bin is absent or
\* has length zero.
DeleteOnMissingLog ==
  DeletedOnNothing(1) => (req[1].status = 404 /\ Untouched(1))

DeleteOnMissingLogWitness ==
  /\ DeletedOnNothing(1)
  /\ req[1].before[DRAWINGS_KEY].present
  /\ shouldBlockIP(req[1].block)
  /\ req[1].status = 404 /\ Untouched(1)

\* the metadata array the DELETE in p works on: the stored one, backfilled
MetadataBackfilledBefore(p) ==
  Backfilled(MetadataBefore(p), Len(RecordsBefore(p)))

\* p ran a DELETE with the right secret, an in-range index and block-ip
\* "true", aimed at a record whose metadata entry has no IP
DeletedLegacyWithBlock(p) ==
  /\ DeletedInRange(p)
  /\ shouldBlockIP(req[p].block)
  /\ ~Truthy(MetadataBackfilledBefore(p)[Idx(req[p]) + 1].ip)

\* C17: a DELETE with the correct secret, an in-range index and block-ip
\* "true", aimed at a record whose metadata entry carries no IP, returns 200,
\* removes that record and its metadata entry, and leaves the persisted
\* blocked set unchanged.
LegacySlotBlock ==
  DeletedLegacyWithBlock(1)
    => /\ req[1].status = 200
       /\ StoredDrawings = Splice1(RecordsBefore(1), Idx(req[1]))
       /\ StoredMetadata = Splice1(MetadataBackfilledBefore(1), Idx(req[1]))
       /\ bucket[BLOCKED_IPS_KEY] = req[1].before[BLOCKED_IPS_KEY]

\* C18: GET returns 200 with a body equal, byte for byte, to the content of
\* drawings.bin (empty when the object is absent) and writes none of the
\* three storage objects; when its read of drawings.bin fails it returns 500.
GetPureRead ==
  (Done(1) /\ req[1].kind = "GET")
    => /\ Untouched(1)
       /\ req[1].calls = {<<"get", DRAWINGS_KEY>>}
       /\ IF req[1].failed = {}
          THEN /\ req[1].status = 200
               /\ req[1].respBody = IF bucket[DRAWINGS_KEY].present
                                     THEN bucket[DRAWINGS_KEY].body ELSE <<>>
          ELSE req[1].status = 500

GetPureReadWitness ==
  /\ Done(1) /\ req[1].kind = "GET" /\ req[1].status = 200
  /\ Len(req[1].respBody) > SlotSize
  /\ req[1].respBody = bucket[DRAWINGS_KEY].body
  /\ \E i \in 1..Len(hist) : hist[i].kind = "GET" /\ hist[i].status = 500

\* in this step the read of blocked-ips.json (pc "getBlocked") or of
\* drawing-metadata.json (pc "getMetadata") by the request in p fails
FailedRead(p, pc) ==
  /\ req[p].pc = pc
  /\ req'[p] # req[p]
  /\ faults' = faults + 1

\* the number of records the request in p hands to backfillMetadata
DrawingCount(p) ==
  IF req[p].kind = "POST" THEN Len(req[p].drawingsData) - 1
  ELSE Len(req[p].drawingsData)

\* C19: when the read of blocked-ips.json or of drawing-metadata.json fails,
\* POST and DELETE go on with what an absent object gives (no blocked IP, an
\* empty metadata array): the failure ends no request, so none is answered
\* 500 or 503 because of it.
FailOpen ==
  [][\A p \in Procs :
       /\ FailedRead(p, "getBlocked")
            => /\ req'[p].pc = IF req[p].kind = "POST"
                               THEN "getDrawings" ELSE "saveBlocked"
               /\ req'[p].blockedIPs =
                    IF req[p].kind = "POST" THEN NewSet(Absent.body)
                    ELSE SetAdd(NewSet(Absent.body), req[p].ipToBlock)
               /\ bucket' = bucket
       /\ FailedRead(p, "getMetadata")
            => /\ req'[p].pc = IF DrawingCount(p) > 0
                               THEN "saveBackfill" ELSE "saveMetadata"
               /\ req'[p].metadata =
                    IF DrawingCount(p) > 0
                    THEN Backfilled(Absent.body, DrawingCount(p))
                    ELSE Append(Absent.body, req'[p].entry)
               /\ bucket' = bucket]_vars

\* a POST from a blocked address whose read of blocked-ips.json failed has
\* been accepted with 200
FailOpenWitness ==
  /\ Done(1) /\ req[1].kind = "POST" /\ req[1].status = 200
  /\ req[1].failed = {<<"get", BLOCKED_IPS_KEY>>}
  /\ SetHas(StoredBlocked, OrDashes(req[1].clientIP))

\* a get or a put of drawings.bin made by the request in p has failed
LogCallFailed(p) ==
  /\ Done(p)
  /\ \/ <<"get", DRAWINGS_KEY>> \in req[p].failed
     \/ <<"put", DRAWINGS_KEY>> \in req[p].failed

\* the metadata array is the one found, or its backfill (the backfill of the
\* empty array when the read of the metadata failed too): no entry of a new
\* record was pushed, none was spliced out
NothingPushedOrSpliced(p) ==
  StoredMetadata \in
    { MetadataBefore(p), MetadataBackfilledBefore(p),
      Backfilled(<<>>, Len(RecordsBefore(p))) }

\* C20: when a get or put of drawings.bin fails during GET, POST or DELETE,
\* the handler returns 500, drawings.bin holds the records it held, no
\* metadata entry has been pushed or spliced, and the blocked set is
\* unchanged.
LogFailure ==
  LogCallFailed(1)
    => /\ req[1].status = 500
       /\ bucket[DRAWINGS_KEY] = req[1].before[DRAWINGS_KEY]
       /\ NothingPushedOrSpliced(1)
       /\ bucket[BLOCKED_IPS_KEY] = req[1].before[BLOCKED_IPS_KEY]

\* a DELETE with block-ip, aimed at a record with a known IP, whose put of
\* drawings.bin failed
LogFailureWitness ==
  /\ LogCallFailed(1) /\ req[1].kind = "DELETE" /\ req[1].status = 500
  /\ req[1].failed = {<<"put", DRAWINGS_KEY>>}
  /\ shouldBlockIP(req[1].block) /\ Truthy(req[1].ipToBlock)
  /\ ~SetHas(StoredBlocked, req[1].ipToBlock)
  /\ bucket[DRAWINGS_KEY] = req[1].before[DRAWINGS_KEY]
  /\ NothingPushedOrSpliced(1)

----------------------------------------------------------------------------
\* C21: the resolved IP is CF-Connecting-IP when that header is non-empty,
\* otherwise the trimmed first comma-separated value of X-Forwarded-For when
\* that header is non-empty, otherwise X-Real-IP when non-empty, otherwise
\* unknown
Given(v) == v # Null /\ v # EmptyStr

FirstValue(s) ==
  LET commas == { i \in 1..Len(s) : s[i] = "," } IN
    IF commas = {} THEN s ELSE SubSeq(s, 1, SetMin(commas) - 1)

Stripped(s) ==
  LET inked == { i \in 1..Len(s) : s[i] # " " } IN
    IF inked = {} THEN <<>>
    ELSE SubSeq(s, SetMin(inked), CHOOSE i \in inked : \A j \in inked : j <= i)

IPPrecedence ==
  resolve.pc = "out" =>
    LET h == resolve.hdr IN
      resolve.ip = IF Given(h.cf) THEN h.cf
                   ELSE IF Given(h.xff) THEN Stripped(FirstValue(h.xff))
                   ELSE IF Given(h.xri) THEN h.xri
                   ELSE Undefined

\* an empty CF-Connecting-IP, a list in X-Forwarded-For and an X-Real-IP:
\* the first value of the list wins
IPPrecedenceWitness ==
  /\ resolve.pc = "out"
  /\ resolve.hdr.cf = EmptyStr
  /\ resolve.hdr.xff = <<" ", "5.6.7.8", " ", ",", "1.2.3.4">>
  /\ resolve.hdr.xri = IPa
  /\ resolve.ip = IPb

----------------------------------------------------------------------------
\* C22: a run of generateSearchIndex writes the index file exactly once when
\* the posts directory holds at least one .mdx regular file, and not at all
\* when no document is found, a failed readdir included
MdxFilesIn(dir) ==
  { i \in 1..Len(dir) : dir[i].isFile /\ dir[i].name[Len(dir[i].name)] = ".mdx" }

IndexWrittenIffPostFound ==
  indexer.pc = "done" =>
    indexer.writes =
      IF "readdir" \notin indexer.failed /\ MdxFilesIn(indexer.dir) # {} THEN 1 ELSE 0

\* C22, amended: exactly one write when a post is found, every post is read
\* and the public directory can be made; otherwise none
IndexWrittenOnce ==
  indexer.pc = "done" =>
    indexer.writes =
      IF /\ MdxFilesIn(indexer.dir) # {}
         /\ indexer.failed \cap {"readdir", "readFile", "mkdir"} = {}
      THEN 1 ELSE 0

IndexWrittenOnceWitness ==
  /\ indexer.pc = "done"
  /\ Len(indexer.dir) = Len(Dirents)
  /\ indexer.failed = {}
  /\ indexer.writes = 1
  /\ Len(indexer.documents) = MaxPosts

----------------------------------------------------------------------------
Quiescent == \A p \in Procs : ~InFlight(p)

\* some request started while another was in flight: a request takes the
\* first slot that runs no handler, so a slot after the first is only ever
\* taken during another request
Overlapped == \E p \in Procs : p > 1 /\ req[p].kind # "none"

SameCount == Len(StoredMetadata) = Len(StoredDrawings)

----------------------------------------------------------------------------
\* C24: once an IP has been persisted in blocked-ips.json no request removes
\* it, also when a read of blocked-ips.json fails or two DELETE requests
\* with block-ip run concurrently
BlockedMonotonic ==
  [][\A i \in 1..Len(StoredBlocked) :
       SetHas(bucket'[BLOCKED_IPS_KEY].body, StoredBlocked[i])]_vars

----------------------------------------------------------------------------
\* the entry recorded by the POST that created this record
EntryOf(record) ==
  IF record[1] >= SeedByte(1) THEN SeedEntry(record[1] - SeedByte(0))
  ELSE RecordedFor(record)

KnownIPsInPlace ==
  \A i \in 1..Len(StoredMetadata) :
    Truthy(StoredMetadata[i].ip) =>
      /\ i <= Len(StoredDrawings)
      /\ StoredMetadata[i] = EntryOf(StoredDrawings[i])

\* an earlier request had its put of drawing-metadata.json fail and returned
\* 200, and every request after it has run without a failure
SwallowedThenClean ==
  \E i \in 1..(Len(hist) - 1) :
    /\ <<"put", DRAWING_METADATA_KEY>> \in hist[i].failed
    /\ hist[i].status = 200
    /\ \A j \in (i + 1)..Len(hist) : hist[j].failed = {}

\* C25: after a put of drawing-metadata.json failed inside a POST or DELETE
\* that still returned 200, and later requests ran without failures, every
\* metadata entry carrying a known IP is at the index of the record created
\* by the POST that recorded that IP
AlignmentSurvives == (Done(1) /\ SwallowedThenClean) => KnownIPsInPlace

----------------------------------------------------------------------------
\* every POST so far sent at most 64 bytes, none of them 255
SmallCleanPayloads ==
  \A i \in 1..Len(hist) :
    hist[i].kind = "POST" => (Len(hist[i].body) <= 64 /\ ~Has255(hist[i].body))

\* C26: from an absent or empty log (and equally from a log of 64-byte
\* legacy records), when every POST payload has at most 64 bytes and no byte
\* 255, after any sequence of requests run one at a time a non-empty
\* drawings.bin has length 64*n + n - 1 for its record count n >= 1 and
\* every decoded record is exactly 64 bytes long
FixedSlots ==
  (Done(1) /\ SmallCleanPayloads /\ Len(bucket[DRAWINGS_KEY].body) > 0) =>
    LET n == Len(StoredDrawings) IN
      /\ n >= 1
      /\ Len(bucket[DRAWINGS_KEY].body) = 64 * n + n - 1
      /\ \A i \in 1..n : Len(StoredDrawings[i]) = 64

\* two POSTs on a log that held no record, the first with a one-byte payload
FixedSlotsWitness ==
  /\ Done(1) /\ SmallCleanPayloads
  /\ Len(hist) = 2
  /\ hist[1].kind = "POST" /\ hist[1].status = 200
  /\ hist[1].sawCount = 0 /\ Len(hist[1].body) = 1
  /\ hist[2].kind = "POST" /\ hist[2].status = 200
  /\ Len(bucket[DRAWINGS_KEY].body) = 129

----------------------------------------------------------------------------
\* the last request is a POST of more than 64 bytes, and the log it found
\* was reached from a log without records by POSTs of at most 64 bytes
OversizedAfterPosts ==
  /\ Done(1) /\ req[1].kind = "POST" /\ Len(req[1].body) > 64
  /\ hist[1].sawCount = 0
  /\ \A i \in 1..(Len(hist) - 1) :
       hist[i].kind = "POST" /\ hist[i].status = 200 /\ Len(hist[i].body) <= 64

\* C27: on a log reached from empty by POSTs of payloads of at most 64
\* bytes, a POST of more than 64 bytes returns 500 and leaves the three
\* storage objects unchanged
OversizedRejected ==
  OversizedAfterPosts => (req[1].status = 500 /\ Untouched(1))

\* C27, amended: the same when none of the earlier payloads holds a byte 255
OversizedRejectedClean ==
  (OversizedAfterPosts /\ NoDelimiterIn(EarlierBodies)) =>
    (req[1].status = 500 /\ Untouched(1))

OversizedRejectedWitness ==
  /\ OversizedAfterPosts /\ NoDelimiterIn(EarlierBodies)
  /\ Len(hist) = 2 /\ Len(hist[1].body) = 1
  /\ req[1].status = 500 /\ Untouched(1)
  /\ Len(StoredDrawings) = 1

----------------------------------------------------------------------------
\* both endpoints have answered every request so far, and the current one
\* turned no submitter away as blocked
BothAnswered ==
  /\ Done(1) /\ earlier.n = started
  /\ \A i \in 1..Len(hist) : hist[i].status # 503

\* C28: for requests run one at a time from the same initial drawings.bin,
\* with no submitter blocked and no failing call, the current endpoint and
\* the earlier metadata-free endpoint return the same status code and leave
\* byte-identical drawings.bin contents after every request
RefinesEarlier ==
  BothAnswered =>
    /\ earlier.status = req[1].status
    /\ earlier.log.present = bucket[DRAWINGS_KEY].present
    /\ earlier.log.body = bucket[DRAWINGS_KEY].body

\* a POST and then a DELETE that asks for a block, both answered 200 by both
RefinesEarlierWitness ==
  /\ BothAnswered /\ Len(hist) = 2
  /\ hist[1].kind = "POST" /\ hist[1].status = 200
  /\ req[1].kind = "DELETE" /\ req[1].status = 200 /\ req[1].block = True
  /\ earlier.status = 200
  /\ earlier.log.body = bucket[DRAWINGS_KEY].body
  /\ Len(StoredDrawings) >= 1

----------------------------------------------------------------------------
\* the metadata entry at the index the DELETE in p was asked to remove
EntryAtDeleted(p) == MetadataBackfilledBefore(p)[Idx(req[p]) + 1]

\* C29: GET and POST never write blocked-ips.json; a DELETE writes it only
\* when its block-ip header is exactly "true", it has removed the record from
\* drawings.bin, and the metadata entry at the deleted index carries an IP
\* (which is then the one added); every other step leaves the object as it is
BlockedFrame ==
  [][bucket'[BLOCKED_IPS_KEY] # bucket[BLOCKED_IPS_KEY] =>
       /\ req[1].kind = "DELETE"
       /\ req[1].block = True
       /\ DRAWINGS_KEY \in req[1].wrote
       /\ Idx(req[1]) < Len(RecordsBefore(1))
       /\ Len(StoredDrawings) = Len(RecordsBefore(1)) - 1
       /\ Truthy(EntryAtDeleted(1).ip)
       /\ bucket'[BLOCKED_IPS_KEY].body =
            SetAdd(req[1].before[BLOCKED_IPS_KEY].body, EntryAtDeleted(1).ip)]_vars

\* a blocking DELETE has written the set
BlockedFrameWitness ==
  /\ Done(1) /\ req[1].kind = "DELETE" /\ req[1].status = 200
  /\ BLOCKED_IPS_KEY \in req[1].wrote
  /\ StoredBlocked = <<IPa>>

----------------------------------------------------------------------------
\* every container's imageId is the id of an image in state.images
Referenced(state) ==
  \A i \in 1..Len(state.containers) :
    \E j \in 1..Len(state.images) : state.images[j].id = state.containers[i].imageId

\* C30: when START_CONTAINER is dispatched only for images that are not
\* building, after every dispatch each container's imageId is the id of an
\* image in state.images, and a DELETE_IMAGE for an image that a container
\* references, running or stopped, leaves the state unchanged
ImageIntegrity ==
  [][/\ Referenced(demo'.state)
     /\ (/\ demo'.last.type = "DELETE_IMAGE"
         /\ \E i \in 1..Len(demo.state.containers) :
              demo.state.containers[i].imageId = demo'.last.imageId)
        => demo'.state = demo.state]_vars

\* DELETE_IMAGE was dispatched for the image of a stopped container
ImageIntegrityWitness ==
  /\ demo.pc = "on" /\ demo.last.type = "DELETE_IMAGE"
  /\ \E i \in 1..Len(demo.state.containers) :
       /\ demo.state.containers[i].imageId = demo.last.imageId
       /\ demo.state.containers[i].status = "stopped"
  /\ \E j \in 1..Len(demo.state.images) : demo.state.images[j].id = demo.last.imageId
  /\ Len(demo.state.images) = 2

====
